---------------------------- MODULE Spec2Model ----------------------------
(***************************************************************************)
(* A model of the python-mailer bulk mailer (src/pymailer.py, with the     *)
(* settings of src/config.py).                                             *)
(*                                                                         *)
(* Text is modelled as a sequence of one-character strings, so that        *)
(* len(), slicing, concatenation and the validator's pattern are computed  *)
(* on characters.  A delimited file is the sequence of its rows, a row     *)
(* the sequence of its cells; the stats file is the sequence of its        *)
(* lines.  A dict is the sequence of its <<key, value>> items in           *)
(* insertion order.                                                        *)
(*                                                                         *)
(* Three specifications share the variables:                               *)
(*   Spec       a run of main(): arguments, confirmation, the three        *)
(*              passes of send, every SMTP step of every attempt;          *)
(*   SpecStats  sequences of _stats calls on an initially empty file;      *)
(*   SpecParse  one _parse_csv call on a recipient file or a retry file.   *)
(***************************************************************************)
EXTENDS Naturals, Sequences, FiniteSets, TLC

VARIABLES
    cfg,                     \* the settings of config.py read by the run
    html_file,               \* content of the template file (html_path)
    csv_file,                \* rows of the recipient file (csv_path)
    retry_file,              \* rows of config.CSV_RETRY_FILENAME
    bad_emails_file,         \* rows of config.CSV_BAD_EMAILS_FILENAME
    bad_emails_resend_file,  \* rows of config.CSV_BAD_EMAILS_FILENAME + '_resend'
    stats_file,              \* lines of config.STATS_FILE
    pc,                      \* position of the control flow
    args,                    \* sys_args as main() sees them
    retry_count,             \* send's retry_count: the pass, 0..2
    recipient_list,          \* send's recipient_list / _parse_csv's result
    idx,                     \* position of send's for loop in recipient_list
    nb,                      \* send's nb: attempts made for the current recipient
    failed_recipients,       \* send's local counter
    smtp_open,               \* SMTP sessions opened and not closed
    exc,                     \* the uncaught exception that ended the run, or "none"
    clock,                   \* datetime.now(), as a tick
    attempts,                \* history: every delivery attempt of the run
    calls,                   \* history: every message given to _stats
    loads,                   \* history: every _parse_csv call, <<caller, file>>
    email_message,           \* the message _form_email made for the current recipient
    answer,                  \* what input() returned at main's prompt, or "none"
    candidate,               \* SpecValidate: the text given to _validate_email
    returned                 \* SpecValidate, SpecRender: what the call returned

vars == <<cfg, html_file, csv_file, retry_file, bad_emails_file,
          bad_emails_resend_file, stats_file, pc, args, retry_count,
          recipient_list, idx, nb, failed_recipients, smtp_open, exc, clock,
          attempts, calls, loads, email_message, answer, candidate,
          returned>>

---------------------------------------------------------------------------
(* Bounds of the model.                                                    *)

MaxCalls == 3        \* _stats calls in a behaviour of SpecStats
MaxRows == 2         \* data rows of a recipient file in SpecParse
MaxRetryRows == 2    \* rows of a retry file in SpecParse
MaxRecipients == 2   \* data rows of the recipient file of a run
MaxRepeat == 2       \* largest NB_EMAILS_PER_RECIPIENT of a run

---------------------------------------------------------------------------
(* Text.                                                                   *)

Min(a, b) == IF a < b THEN a ELSE b

SetMax(S) == CHOOSE x \in S : \A y \in S : y <= x

Lower == {"a", "b", "c", "d", "e", "f", "g", "h", "i", "j", "k", "l", "m",
          "n", "o", "p", "q", "r", "s", "t", "u", "v", "w", "x", "y", "z"}

Upper == {"A", "B", "C", "D", "E", "F", "G", "H", "I", "J", "K", "L", "M",
          "N", "O", "P", "Q", "R", "S", "T", "U", "V", "W", "X", "Y", "Z"}

Digit == {"0", "1", "2", "3", "4", "5", "6", "7", "8", "9"}

Alnum == Lower \cup Upper \cup Digit

\* The characters str.encode('ascii') accepts, among those the model uses;
\* "U+00E9" stands for one character outside ASCII.
Ascii == Alnum \cup {"_", "-", ".", "@", " ", "<", ">", "!", ":", "\n"}

DigitOf(n) == <<"0", "1", "2", "3", "4", "5", "6", "7", "8", "9">>[n + 1]

\* "%s" % n for a natural number n
RECURSIVE Str(_)
Str(n) == IF n < 10 THEN <<DigitOf(n)>>
          ELSE Str(n \div 10) \o <<DigitOf(n % 10)>>

\* str.split(sep) for a one-character sep: the pieces between the separators
RECURSIVE Split(_, _)
Split(s, sep) ==
    IF \A i \in 1..Len(s) : s[i] # sep THEN <<s>>
    ELSE LET k == CHOOSE i \in 1..Len(s) :
                      s[i] = sep /\ \A j \in 1..(i - 1) : s[j] # sep
         IN  <<SubSeq(s, 1, k - 1)>> \o Split(SubSeq(s, k + 1, Len(s)), sep)

---------------------------------------------------------------------------
(* dict: items in insertion order.                                         *)

DictHas(d, k) == \E i \in 1..Len(d) : d[i][1] = k

\* d.get(k): None is modelled as the empty text, which the callers treat alike
DictGet(d, k) ==
    IF DictHas(d, k) THEN d[CHOOSE i \in 1..Len(d) : d[i][1] = k][2] ELSE <<>>

\* d[k] = v
DictSet(d, k, v) ==
    IF DictHas(d, k)
    THEN [i \in 1..Len(d) |-> IF d[i][1] = k THEN <<k, v>> ELSE d[i]]
    ELSE Append(d, <<k, v>>)

---------------------------------------------------------------------------
(* PyMailer._stats                                                         *)

KeyLen == 5

\* message[:5]
Prefix(s) == SubSeq(s, 1, Min(KeyLen, Len(s)))

\* stats_file.read().split('\n'): the lines, and the empty text after the last
\* newline
ReadEntries(file) == file \o << <<>> >>

IsExistingEntry(entries, message) ==
    \E i \in 1..Len(entries) :
        entries[i] # <<>> /\ Prefix(message) = Prefix(entries[i])

PatchEntries(entries, message) ==
    [i \in 1..Len(entries) |->
        IF entries[i] # <<>> /\ Prefix(message) = Prefix(entries[i])
        THEN message ELSE entries[i]]

\* the loop that writes "%s\n" % entry for the entries that are not empty
WriteEntries(entries) == SelectSeq(entries, LAMBDA e : e # <<>>)

\* a mutant: an entry is replaced only by an identical message
_stats_whole_line(file, message) ==
    LET entries == ReadEntries(file)
    IN  WriteEntries(IF \E i \in 1..Len(entries) : entries[i] = message
                     THEN entries ELSE Append(entries, message))

\* a mutant: the line of the key is removed and the message added at the end
_stats_move_to_end(file, message) ==
    LET entries == ReadEntries(file)
    IN  WriteEntries(Append(SelectSeq(entries,
                                LAMBDA e : Prefix(e) # Prefix(message)),
                            message))

_stats(file, message) ==
    LET entries == ReadEntries(file)
        patched == PatchEntries(entries, message)
    IN  WriteEntries(IF IsExistingEntry(entries, message)
                     THEN patched ELSE Append(patched, message))

---------------------------------------------------------------------------
(* PyMailer._validate_email                                                *)

AtomChar == Alnum \cup {"_", "-"}

\* [a-zA-Z0-9_-]+
IsAtom(a) == Len(a) > 0 /\ \A i \in 1..Len(a) : a[i] \in AtomChar

\* [a-zA-Z0-9](?:[a-zA-Z0-9-]*[a-zA-Z0-9])?
IsLabel(l) ==
    /\ Len(l) > 0
    /\ l[1] \in Alnum
    /\ l[Len(l)] \in Alnum
    /\ \A i \in 1..Len(l) : l[i] \in Alnum \cup {"-"}

\* ^atom(?:\.atom)*@(?:label\.)+label$ anchored at both ends
MatchesWhole(s) ==
    LET parts == Split(s, "@")
    IN  /\ Len(parts) = 2
        /\ LET atoms  == Split(parts[1], ".")
               labels == Split(parts[2], ".")
           IN  /\ \A i \in 1..Len(atoms) : IsAtom(atoms[i])
               /\ Len(labels) >= 2
               /\ \A i \in 1..Len(labels) : IsLabel(labels[i])

\* re.match(pattern, s): '$' also matches before a newline that ends the text
ReMatch(s) ==
    \/ MatchesWhole(s)
    \/ /\ Len(s) > 0
       /\ s[Len(s)] = "\n"
       /\ MatchesWhole(SubSeq(s, 1, Len(s) - 1))

MinEmailLen == 5

\* TRUE when the address is returned, FALSE when None is
_validate_email(email_address) ==
    /\ ~(Len(email_address) = 0 \/ Len(email_address) < MinEmailLen)
    /\ ReMatch(email_address)
    /\ \A i \in 1..Len(email_address) : email_address[i] \in Ascii

---------------------------------------------------------------------------
(* PyMailer._parse_csv                                                     *)

K_email == <<"e", "m", "a", "i", "l">>

K_name == <<"n", "a", "m", "e">>

\* The body of `for j, var_name in enumerate(variables_names)` from column j
\* on.  acc.variables is the row's dict, acc.appended counts how often that
\* dict (the object, so with the columns stored after the append too) was
\* appended to recipients_list, acc.bad collects the rows written to the
\* bad-email file, acc.error is set when row[j] raises IndexError.
RECURSIVE ParseRow_keep_bad(_, _, _, _)
ParseRow_keep_bad(variables_names, row, j, acc) ==
    IF j > Len(variables_names) THEN acc
    ELSE IF j > Len(row) THEN [acc EXCEPT !.error = TRUE]
    ELSE IF variables_names[j] = K_email /\ ~_validate_email(row[j])
    THEN ParseRow_keep_bad(variables_names, row, j + 1,
             [acc EXCEPT !.variables = DictSet(@, variables_names[j], row[j]),
                         !.appended = @ + 1,
                         !.bad = Append(@, <<row[j]>>)])
    ELSE ParseRow_keep_bad(variables_names, row, j + 1,
             [acc EXCEPT !.variables = DictSet(@, variables_names[j], row[j]),
                         !.appended =
                             IF variables_names[j] = K_email THEN @ + 1 ELSE @])

RECURSIVE ParseRow(_, _, _, _)
ParseRow(variables_names, row, j, acc) ==
    IF j > Len(variables_names) THEN acc
    ELSE IF j > Len(row) THEN [acc EXCEPT !.error = TRUE]
    ELSE IF variables_names[j] = K_email
    THEN IF _validate_email(row[j])
         THEN ParseRow(variables_names, row, j + 1,
                  [acc EXCEPT
                      !.variables = DictSet(@, variables_names[j], row[j]),
                      !.appended = @ + 1])
         ELSE ParseRow(variables_names, row, j + 1,
                  [acc EXCEPT !.bad = Append(@, <<row[j]>>)])
    ELSE ParseRow(variables_names, row, j + 1,
             [acc EXCEPT !.variables = DictSet(@, variables_names[j], row[j])])

\* `for i, row in enumerate(csv_reader)` from row i on (row 1 is the header);
\* the loop ends at the first IndexError.
RECURSIVE ParseRows(_, _, _)
ParseRows(rows, i, out) ==
    IF i > Len(rows) \/ out.error THEN out
    ELSE LET r == ParseRow(rows[1], rows[i], 1,
                      [variables |-> <<>>, appended |-> 0, bad |-> <<>>,
                       error |-> FALSE])
         IN  ParseRows(rows, i + 1,
                 [recipients |-> out.recipients
                                    \o [n \in 1..r.appended |-> r.variables],
                  bad   |-> out.bad \o r.bad,
                  error |-> r.error])

\* csv_file.write(text) on a file read to its end: the text is added there
WriteAtEnd(file, rows) == file \o rows

\* _parse_csv on a file with these rows.  recipients is the list returned
\* (nothing is returned when error), bad the bad-email file written, after
\* the content of the file that was read.
_parse_csv(file, is_resend) ==
    LET out == ParseRows(file, 2,
                   [recipients |-> <<>>, bad |-> <<>>, error |-> FALSE])
    IN  [recipients |-> out.recipients,
         bad   |-> out.bad,
         error |-> out.error,
         after |-> IF is_resend /\ ~out.error
                   THEN WriteAtEnd(file, <<>>) ELSE file]

---------------------------------------------------------------------------
(* SpecStats: _stats called again and again on a stats file that starts     *)
(* empty, as main() creates it.                                            *)

\* Messages of _stats calls: keys that differ in their fifth character
\* only, messages that differ after their key only, a message that is
\* exactly a key, messages shorter than a key, the empty message.
StatKeys == { <<"S", "T", "A", "R", "T">>,
              <<"S", "T", "A", "R", "S">>,
              <<"E", "N", "D", " ", "T">> }

StatTails == { <<>>, <<"1">>, <<"2">>, <<"E", "R">> }

StatMessages == {k \o t : k \in StatKeys, t \in StatTails}
                    \cup { <<"S", "T", "A", "R">>, <<"S", "T">>, <<>> }

\* the variables of a run of main(), before it starts
RunIdle ==
    /\ cfg = <<>>
    /\ html_file = <<>>
    /\ args = <<>>
    /\ retry_count = 0
    /\ idx = 0
    /\ nb = 0
    /\ failed_recipients = 0
    /\ smtp_open = 0
    /\ exc = "none"
    /\ clock = 0
    /\ attempts = <<>>
    /\ email_message = <<>>
    /\ answer = "none"
    /\ candidate = <<>>
    /\ returned = <<>>

RunVars == <<cfg, html_file, args, retry_count, idx, nb, failed_recipients,
             smtp_open, exc, clock, attempts, email_message, answer,
             candidate, returned>>

FileVars == <<csv_file, retry_file, bad_emails_file, bad_emails_resend_file>>

InitStats ==
    /\ RunIdle
    /\ pc = "stats"
    /\ stats_file = <<>>
    /\ calls = <<>>
    /\ loads = <<>>
    /\ recipient_list = <<>>
    /\ csv_file = <<>>
    /\ retry_file = <<>>
    /\ bad_emails_file = <<>>
    /\ bad_emails_resend_file = <<>>

StatsCall ==
    /\ pc = "stats"
    /\ Len(calls) < MaxCalls
    /\ \E message \in StatMessages :
          /\ stats_file' = _stats(stats_file, message)
          /\ calls' = Append(calls, message)
    /\ UNCHANGED <<RunVars, FileVars, pc, loads, recipient_list>>

NextStats == StatsCall

SpecStats == InitStats /\ [][NextStats]_vars

\* the calls made so far whose key is k
CallsFor(k) == {n \in 1..Len(calls) : Prefix(calls[n]) = k}

\* C6: starting from an empty stats file, after any sequence of _stats calls
\* no two lines of the stats file share a key (their first 5 characters),
\* every line is the message of the most recent call for its key, and every
\* key called with a message that is not empty has its line.
C6_OneLinePerKeyLastWins ==
    pc = "stats" =>
        /\ \A i, j \in 1..Len(stats_file) :
               i # j => Prefix(stats_file[i]) # Prefix(stats_file[j])
        /\ \A i \in 1..Len(stats_file) :
               LET k == Prefix(stats_file[i])
               IN  /\ CallsFor(k) # {}
                   /\ stats_file[i] = calls[SetMax(CallsFor(k))]
        /\ \A n \in 1..Len(calls) :
               calls[SetMax(CallsFor(Prefix(calls[n])))] # <<>> =>
                   \E i \in 1..Len(stats_file) :
                       Prefix(stats_file[i]) = Prefix(calls[n])

\* a key was written twice with different messages, among other keys
C6_Witness ==
    /\ pc = "stats"
    /\ Len(stats_file) >= 2
    /\ \E m, n \in 1..Len(calls) :
          /\ m < n
          /\ Prefix(calls[m]) = Prefix(calls[n])
          /\ calls[m] # calls[n]
          /\ Len(calls[n]) > KeyLen

---------------------------------------------------------------------------
(* SpecParse: one _parse_csv call, on a recipient file (as _parse_csv()     *)
(* does for csv_path) or on the retry file (as                              *)
(* _parse_csv(config.CSV_RETRY_FILENAME) does).                             *)

SeqsUpTo(S, n) == UNION {[1..k -> S] : k \in 0..n}

T_Ann == <<"A", "n", "n">>

T_Bob == <<"B", "o", "b">>

K_city == <<"c", "i", "t", "y">>

\* addresses _validate_email accepts
E_ann == <<"a", "@", "b", ".", "c", "o">>

E_bob == <<"b", ".", "o", "@", "x", "-", "y", ".", "z">>

\* cells _validate_email rejects
E_bad == <<"b", "a", "d">>

E_nodot == <<"a", "b", "@", "c", "d", "e">>

Headers == { <<K_name, K_email>>, <<K_email, K_name>>, <<K_email>>,
             <<K_name, K_email, K_city>>, <<K_name, K_city>> }

\* data rows: full rows with an accepted or a rejected address in either
\* column, a row of three cells, a row of one cell, a blank line
DataRows == { <<T_Ann, E_ann>>, <<E_bob, T_Bob>>, <<T_Bob, E_bad>>,
              <<E_nodot, E_bob, T_Ann>>, <<T_Ann>>, <<>> }

CsvFiles == {<<h>> \o rows : h \in Headers, rows \in SeqsUpTo(DataRows, MaxRows)}
                \cup { <<>> }

\* the rows _retry_handler is written to produce: name, email, no header
RetryRows == { <<T_Ann, E_ann>>, <<T_Bob, E_bob>>, <<<<>>, E_ann>> }

RetryFiles == SeqsUpTo(RetryRows, MaxRetryRows)

\* what an earlier load of the same process left in a bad-email file
StaleBad == { <<>>, << <<E_bad>> >> }

InitParse ==
    /\ RunIdle
    /\ pc = "ready"
    /\ stats_file = <<>>
    /\ calls = <<>>
    /\ loads = <<>>
    /\ recipient_list = <<>>
    /\ \/ csv_file \in CsvFiles /\ retry_file = <<>>
       \/ csv_file = <<>> /\ retry_file \in RetryFiles
    /\ bad_emails_file \in StaleBad
    /\ bad_emails_resend_file \in StaleBad

\* self._parse_csv()
LoadRecipients ==
    /\ pc = "ready"
    /\ LET r == _parse_csv(csv_file, FALSE)
       IN  /\ csv_file' = r.after
           /\ bad_emails_file' = r.bad
           /\ recipient_list' = IF r.error THEN recipient_list ELSE r.recipients
           /\ pc' = IF r.error THEN "crashed" ELSE "loaded"
           /\ exc' = IF r.error THEN "IndexError" ELSE exc
    /\ loads' = Append(loads, <<"call", "csv">>)
    /\ UNCHANGED <<answer, candidate, returned>>
    /\ UNCHANGED <<cfg, html_file, args, retry_count, idx, nb,
                   failed_recipients, smtp_open, clock, attempts, email_message,
                   retry_file, bad_emails_resend_file, stats_file, calls>>

\* self._parse_csv(config.CSV_RETRY_FILENAME)
LoadRetry ==
    /\ pc = "ready"
    /\ LET r == _parse_csv(retry_file, TRUE)
       IN  /\ retry_file' = r.after
           /\ bad_emails_resend_file' = r.bad
           /\ recipient_list' = IF r.error THEN recipient_list ELSE r.recipients
           /\ pc' = IF r.error THEN "crashed" ELSE "loaded"
           /\ exc' = IF r.error THEN "IndexError" ELSE exc
    /\ loads' = Append(loads, <<"call", "retry">>)
    /\ UNCHANGED <<answer, candidate, returned>>
    /\ UNCHANGED <<cfg, html_file, args, retry_count, idx, nb,
                   failed_recipients, smtp_open, clock, attempts, email_message,
                   csv_file, bad_emails_file, stats_file, calls>>

NextParse == LoadRecipients \/ LoadRetry

SpecParse == InitParse /\ [][NextParse]_vars

\* the columns of a header named 'email'
EmailColumns(header) == {j \in 1..Len(header) : header[j] = K_email}

\* a header with exactly one 'email' column and no name twice
PlainHeader(header) ==
    /\ Cardinality(EmailColumns(header)) = 1
    /\ \A i, j \in 1..Len(header) : header[i] = header[j] => i = j

EmailOf(header, row) == row[CHOOSE j \in 1..Len(header) : header[j] = K_email]

\* the record of a row: every column of the header with the row's cell
RecordOf(header, row) == [j \in 1..Len(header) |-> <<header[j], row[j]>>]

DataOf(file) == SubSeq(file, 2, Len(file))

\* C5: immediately after _parse_csv has loaded the retry file, the retry file
\* is empty, whatever rows it held before.
C5_RetrySinkEmptyAfterLoad ==
    (pc = "loaded" /\ loads = << <<"call", "retry">> >>) => retry_file = <<>>

\* C7: loading a recipient file whose header has an 'email' column returns
\* the rows with an accepted address, in file order and each with all its
\* columns, and leaves the rejected addresses, in file order, as the rows of
\* the bad-email file; every data row is in exactly one of the two.
C7_ValidRowsLoadedBadRowsSunk ==
    (pc = "loaded" /\ loads = << <<"call", "csv">> >> /\ csv_file # <<>>
        /\ PlainHeader(csv_file[1])) =>
        LET header == csv_file[1]
            good == SelectSeq(DataOf(csv_file),
                        LAMBDA row : _validate_email(EmailOf(header, row)))
            bad  == SelectSeq(DataOf(csv_file),
                        LAMBDA row : ~_validate_email(EmailOf(header, row)))
        IN  /\ recipient_list = [n \in 1..Len(good) |-> RecordOf(header, good[n])]
            /\ bad_emails_file = [n \in 1..Len(bad) |-> <<EmailOf(header, bad[n])>>]
            /\ Len(recipient_list) + Len(bad_emails_file) = Len(csv_file) - 1

\* a file with an accepted and a rejected row was loaded over a stale
\* bad-email file
C7_Witness ==
    /\ pc = "loaded"
    /\ loads = << <<"call", "csv">> >>
    /\ csv_file # <<>>
    /\ PlainHeader(csv_file[1])
    /\ Len(csv_file[1]) >= 2
    /\ Len(recipient_list) >= 1
    /\ Len(bad_emails_file) >= 1
    /\ bad_emails_file[1] # <<E_bad>>

\* a row with its missing trailing cells as empty text
PadRow(header, row) ==
    [j \in 1..Len(header) |-> IF j <= Len(row) THEN row[j] ELSE <<>>]

\* C8: a data row with fewer cells than the header does not abort the load:
\* its missing columns are empty text and every other row is loaded.
C8_ShortRowDoesNotAbort ==
    (pc # "ready" /\ loads = << <<"call", "csv">> >> /\ csv_file # <<>>
        /\ PlainHeader(csv_file[1])) =>
        LET header == csv_file[1]
            padded == [n \in 1..(Len(csv_file) - 1) |->
                          PadRow(header, csv_file[n + 1])]
            good == SelectSeq(padded,
                        LAMBDA row : _validate_email(EmailOf(header, row)))
        IN  /\ pc = "loaded"
            /\ recipient_list = [n \in 1..Len(good) |-> RecordOf(header, good[n])]

---------------------------------------------------------------------------
(* The text a run of main() builds.                                        *)

K_recipient == <<"r", "e", "c", "i", "p", "i", "e", "n", "t">>

K_sender == <<"s", "e", "n", "d", "e", "r">>

K_reply_to == <<"r", "e", "p", "l", "y", "-", "t", "o">>

\* the texts of the _stats calls of send and main, up to their value
M_TOTAL == <<"T", "O", "T", "A", "L", " ", "R", "E", "C", "I", "P", "I",
    "E", "N", "T", "S", ":", " ">>

M_START == <<"S", "T", "A", "R", "T", " ", "T", "I", "M", "E", ":", " ">>

M_LAST == <<"L", "A", "S", "T", " ", "R", "E", "C", "I", "P", "I", "E",
    "N", "T", ":", " ">>

M_FAILED == <<"F", "A", "I", "L", "E", "D", " ", "R", "E", "C", "I", "P",
    "I", "E", "N", "T", "S", ":", " ">>

M_CSV == <<"C", "S", "V", " ", "U", "S", "E", "D", ":", " ">>

M_END == <<"E", "N", "D", " ", "T", "I", "M", "E", ":", " ">>

\* "%s <%s>" % (name, address)
NameAddr(name, address) == name \o <<" ", "<">> \o address \o <<">">>

\* The texts a run reads from config.py besides the settings of cfg: short
\* texts of the shape of those config.py gives.
FROM_NAME == <<"C", "o">>

FROM_EMAIL == <<"c", "o", "@", "x", ".", "i", "o">>

REPLYTO_NAME == <<"R", "e">>

REPLYTO_EMAIL == <<"r", "e", "@", "x", ".", "i", "o">>

TEST_RECIPIENTS == << << <<K_name, <<"N", "a", "m", "e">> >>,
                         <<K_email, <<"s", "o", "@", "e", "x", ".", "c", "o", "m">> >> >> >>

\* csv_path as main() received it
CSV_PATH == <<"r", ".", "c", "s", "v">>

---------------------------------------------------------------------------
(* PyMailer._html_parser and PyMailer._form_email                          *)

\* whether old occurs in s at position i
OccursAt(s, old, i) ==
    /\ i + Len(old) - 1 <= Len(s)
    /\ \A k \in 1..Len(old) : s[i + k - 1] = old[k]

\* s.replace(old, new) for a text old that is not empty: the occurrences of
\* old, found from left to right without overlap, become new
RECURSIVE Replace(_, _, _)
Replace(s, old, new) ==
    IF \A i \in 1..Len(s) : ~OccursAt(s, old, i) THEN s
    ELSE LET i == CHOOSE n \in 1..Len(s) :
                      OccursAt(s, old, n) /\ \A m \in 1..(n - 1) : ~OccursAt(s, old, m)
         IN  SubSeq(s, 1, i - 1) \o new
                 \o Replace(SubSeq(s, i + Len(old), Len(s)), old, new)

\* "<!--%s-->" % key
Placeholder(key) == <<"<", "!", "-", "-">> \o key \o <<"-", "-", ">">>

\* `for key, value in recipient_data.items()` from item i on
RECURSIVE Substitute(_, _, _)
Substitute(html_content, recipient_data, i) ==
    IF i > Len(recipient_data) THEN html_content
    ELSE Substitute(Replace(html_content, Placeholder(recipient_data[i][1]),
                            recipient_data[i][2]),
                    recipient_data, i + 1)

\* error is "Exception" for an empty html file; content is the text returned
_html_parser(html, recipient_data) ==
    IF html = <<>>
    THEN [error |-> "Exception", content |-> <<>>]
    ELSE [error |-> "none", content |-> Substitute(html, recipient_data, 1)]

\* error is _html_parser's, or "KeyError" for recipient_data['reply-to'];
\* the message is modelled by its To header and its body
_form_email(html, recipient_data) ==
    LET parsed == _html_parser(html, recipient_data)
    IN  IF parsed.error # "none"
        THEN [error |-> parsed.error, email_message |-> <<>>]
        ELSE IF ~DictHas(recipient_data, K_reply_to)
        THEN [error |-> "KeyError", email_message |-> <<>>]
        ELSE [error |-> "none",
              email_message |-> <<DictGet(recipient_data, K_recipient),
                                  parsed.content>>]

---------------------------------------------------------------------------
(* PyMailer._retry_handler and the except clause of PyMailer.send          *)

\* open(path, mode, encoding=...) raises ValueError for a binary mode
OpenRejects(mode, with_encoding) ==
    with_encoding /\ \E i \in 1..Len(mode) : mode[i] = "b"

\* open(..., 'wb+', encoding='utf-8'), then one row written to the new file
_retry_handler(file, recipient_data) ==
    IF OpenRejects(<<"w", "b", "+">>, TRUE)
    THEN [error |-> "ValueError", file |-> file]
    ELSE [error |-> "none",
          file  |-> << <<DictGet(recipient_data, K_name),
                         DictGet(recipient_data, K_email)>> >>]

\* the names send's body assigns, and the names bound in the module
SendLocals == {"self", "retry_count", "recipient_list", "failed_recipients",
               "recipient_data", "message", "nb", "smtp_server", "e"}

ModuleNames == {"csv", "logging", "os", "re", "smtplib", "sys", "datetime",
                "MIMEText", "sleep", "config", "PyMailer", "main"}

NameBound(id) == id \in SendLocals \cup ModuleNames

\* a mutant: the failed attempt's recipient is written as LAST RECIPIENT
ExceptHandler_marks_last(recipient_data, retry, failed, stats) ==
    [error |-> "NameError", retry |-> retry, failed |-> failed,
     stats |-> _stats(stats, M_LAST \o DictGet(recipient_data, K_recipient)),
     said  |-> <<M_LAST \o DictGet(recipient_data, K_recipient)>>]

\* The except clause of send for one failed attempt: logging.error(... %
\* (recipient, repr(e))) raises NameError when `recipient` is not bound; then
\* _retry_handler; then failed_recipients and its stats line.
ExceptHandler(recipient_data, retry, failed, stats) ==
    IF ~NameBound("recipient")
    THEN [error |-> "NameError", retry |-> retry, failed |-> failed,
          stats |-> stats, said |-> <<>>]
    ELSE LET r == _retry_handler(retry, recipient_data)
         IN  IF r.error # "none"
             THEN [error |-> r.error, retry |-> r.file, failed |-> failed,
                   stats |-> stats, said |-> <<>>]
             ELSE [error |-> "none", retry |-> r.file, failed |-> failed + 1,
                   stats |-> _stats(stats, M_FAILED \o Str(failed + 1)),
                   said  |-> <<M_FAILED \o Str(failed + 1)>>]

---------------------------------------------------------------------------
(* Spec: a run of main().                                                  *)

EncryptModes == {"none", "ssl", "starttls"}

\* The settings of config.py.  ENCRYPT_MODE "tls" stands for any value that
\* is none of the three; REPLYTO is "unset" when config has no REPLYTO_EMAIL
\* (as src/config.py), "empty" when REPLYTO_EMAIL is '', "set" when
\* REPLYTO_EMAIL and REPLYTO_NAME are given; SEND_DELAY is "unset" when config
\* has no SEND_DELAY (as src/config.py); AUTH is whether SMTP_USER and
\* SMTP_PASSWORD are both given.
Configs == [ENCRYPT_MODE : EncryptModes \cup {"tls"},
            REPLYTO : {"unset", "empty", "set"},
            SEND_DELAY : {"unset", "set"},
            AUTH : BOOLEAN,
            NB_EMAILS_PER_RECIPIENT : 1..MaxRepeat]

T_Hi == <<"H", "i", " ">> \o Placeholder(K_name)

Templates == { <<>>, T_Hi }

\* data rows of the recipient file of a run: a named recipient, a recipient
\* without a name, a row with a rejected address
RunRows == { <<T_Ann, E_ann>>, <<<<>>, E_bob>>, <<T_Bob, E_bad>> }

RunFiles == {<<<<K_name, K_email>>>> \o rows :
                rows \in {r \in SeqsUpTo(RunRows, MaxRecipients) :
                             \A i, j \in 1..Len(r) : r[i] = r[j] => i = j}}
                \cup { <<<<K_name, K_email>>, <<T_Ann>>>> }

\* os.path.splitext(path)[1] for a path without a directory: the text from
\* the last dot on, empty when there is no dot or when the only dots lead
\* the name
Splitext(path) ==
    LET dots == {i \in 1..Len(path) :
                    path[i] = "." /\ \E j \in 1..(i - 1) : path[j] # "."}
    IN  IF dots = {} THEN <<>> ELSE SubSeq(path, SetMax(dots), Len(path))

EXT_HTML == <<".", "h", "t", "m", "l">>

EXT_CSV == <<".", "c", "s", "v">>

\* html_path as main() may receive it: a template path, a text file, a path
\* that is an extension only, a path with a second extension
HtmlPaths == { <<"t">> \o EXT_HTML, <<"t", ".", "t", "x", "t">>, EXT_HTML,
               <<"t">> \o EXT_HTML \o <<".", "g", "z">> }

\* csv_path as main() may receive it
CsvPaths == { CSV_PATH, <<"r", ".", "t", "x", "t">>, <<"r", "c", "s", "v">> }

\* sys_args: their number, the action, html_path and csv_path
ArgChoices == [n : {3, 4}, action : {"-s", "-t", "-x"},
               html_path : HtmlPaths, csv_path : CsvPaths]

\* what the operator may type at the prompt
Answers == {"yes", "no", "y"}

\* a mutant: every answer to the prompt is taken as a confirmation
Confirmed_any(reply) == TRUE

\* main(), lines 292 and 304: input(...) == 'yes'
Confirmed(reply) == reply = "yes"

Init ==
    /\ pc = "start"
    /\ cfg \in Configs
    /\ html_file \in Templates
    /\ csv_file \in RunFiles
    /\ retry_file = << <<T_Bob, E_bob>> >>
    /\ bad_emails_file = <<>>
    /\ bad_emails_resend_file = <<>>
    /\ stats_file = <<>>
    /\ args = <<>>
    /\ retry_count = 0
    /\ recipient_list = <<>>
    /\ idx = 0
    /\ nb = 0
    /\ failed_recipients = 0
    /\ smtp_open = 0
    /\ exc = "none"
    /\ clock = 0
    /\ attempts = <<>>
    /\ calls = <<>>
    /\ loads = <<>>
    /\ email_message = <<>>
    /\ answer = "none"
    /\ candidate = <<>>
    /\ returned = <<>>

\* main(), lines 269-289: the retry file is emptied, the arguments unpacked
\* and the extensions checked; sys.exit() on a bad argument
Main ==
    /\ pc = "start"
    /\ retry_file' = <<>>
    /\ \E a \in ArgChoices :
          /\ args' = a
          /\ pc' = IF \/ a.n # 4
                      \/ Splitext(a.html_path) # EXT_HTML
                      \/ Splitext(a.csv_path) # EXT_CSV
                   THEN "exited"
                   ELSE IF a.action = "-s" THEN "count"
                   ELSE IF a.action = "-t" THEN "confirm"
                   ELSE "end"
    /\ UNCHANGED <<answer, candidate, returned>>
    /\ UNCHANGED <<cfg, html_file, csv_file, bad_emails_file,
                   bad_emails_resend_file, stats_file, retry_count,
                   recipient_list, idx, nb, failed_recipients, smtp_open, exc,
                   clock, attempts, calls, loads, email_message>>

\* main(), line 292: pymailer.count_recipients() for the prompt
CountRecipients ==
    /\ pc = "count"
    /\ LET r == _parse_csv(csv_file, FALSE)
       IN  /\ csv_file' = r.after
           /\ bad_emails_file' = r.bad
           /\ pc' = IF r.error THEN "crashed" ELSE "confirm"
           /\ exc' = IF r.error THEN "IndexError" ELSE exc
    /\ loads' = Append(loads, <<"main", "csv">>)
    /\ UNCHANGED <<answer, candidate, returned>>
    /\ UNCHANGED <<cfg, html_file, retry_file, bad_emails_resend_file,
                   stats_file, args, retry_count, recipient_list, idx, nb,
                   failed_recipients, smtp_open, clock, attempts, calls,
                   email_message>>

\* main(), lines 292-308: the answer to the prompt; on 'yes' the CSV USED
\* stats line ('-s') and the call of send() or send_test()
Confirm ==
    /\ pc = "confirm"
    /\ \E reply \in Answers :
          /\ answer' = reply
          /\ IF Confirmed(reply)
             THEN /\ pc' = "send"
                  /\ retry_count' = 0
                  /\ recipient_list' = IF args.action = "-t"
                                       THEN TEST_RECIPIENTS ELSE <<>>
                  /\ stats_file' = IF args.action = "-s"
                                   THEN _stats(stats_file, M_CSV \o args.csv_path)
                                   ELSE stats_file
                  /\ calls' = IF args.action = "-s"
                              THEN Append(calls, M_CSV \o args.csv_path)
                              ELSE calls
             ELSE /\ pc' = "exited"
                  /\ UNCHANGED <<retry_count, recipient_list, stats_file, calls>>
    /\ UNCHANGED <<candidate, returned>>
    /\ UNCHANGED <<cfg, html_file, csv_file, retry_file, bad_emails_file,
                   bad_emails_resend_file, args, idx, nb, failed_recipients,
                   smtp_open, exc, clock, attempts, loads, email_message>>

\* a mutant: the mode is not checked
ValidEncryptMode_any(mode) == TRUE

\* send, line 190
ValidEncryptMode(mode) == mode \in EncryptModes

\* send(), lines 193-196: a recipient_list that is given and not empty is
\* kept; otherwise the recipient file is loaded, and in a retry pass the
\* retry file after it, whose records replace those of the recipient file.
\* files is <<csv_file, retry_file, bad_emails_file,
\* bad_emails_resend_file>>, loaded the files read, error an IndexError.
LoadFirst(list, files) ==
    LET r == _parse_csv(files[1], FALSE)
    IN  [error |-> r.error,
         list  |-> IF r.error THEN list ELSE r.recipients,
         files |-> <<r.after, files[2], r.bad, files[4]>>,
         loaded |-> << <<"send", "csv">> >>]

LoadRetryAfter(first) ==
    LET r == _parse_csv(first.files[2], TRUE)
    IN  [error |-> r.error,
         list  |-> IF r.error THEN first.list ELSE r.recipients,
         files |-> <<first.files[1], r.after, first.files[3], r.bad>>,
         loaded |-> Append(first.loaded, <<"send", "retry">>)]

\* line 195: `if retry_count:` after the first load
LoadRetryIf(first, count) ==
    IF first.error \/ count = 0 THEN first ELSE LoadRetryAfter(first)

ResolveList(list, count, files) ==
    IF list # <<>>
    THEN [error |-> FALSE, list |-> list, files |-> files, loaded |-> <<>>]
    ELSE LoadRetryIf(LoadFirst(list, files), count)

\* a mutant: every pass writes the two stats lines
PassStats_every_pass(count, list, now) ==
    <<M_TOTAL \o Str(Len(list)), M_START \o Str(now)>>

\* send(), lines 198-201: the stats lines of the initial pass
PassStats(count, list, now) ==
    IF count = 0
    THEN <<M_TOTAL \o Str(Len(list)), M_START \o Str(now)>>
    ELSE <<>>

\* _stats for each message of said, in order
RECURSIVE StatsAll(_, _)
StatsAll(file, said) ==
    IF said = <<>> THEN file
    ELSE StatsAll(_stats(file, Head(said)), Tail(said))

\* send(), lines 186-204: the mode check, the recipient list, the stats
\* lines of the initial pass, the failed counter
SendEntry ==
    /\ pc = "send"
    /\ IF ~ValidEncryptMode(cfg.ENCRYPT_MODE)
       THEN /\ pc' = "crashed"
            /\ exc' = "Exception"
            /\ UNCHANGED <<csv_file, retry_file, bad_emails_file,
                           bad_emails_resend_file, stats_file, recipient_list,
                           idx, failed_recipients, clock, calls, loads>>
       ELSE \E l \in {ResolveList(recipient_list, retry_count,
                                    <<csv_file, retry_file, bad_emails_file,
                                      bad_emails_resend_file>>)} :
                /\ csv_file' = l.files[1]
                /\ retry_file' = l.files[2]
                /\ bad_emails_file' = l.files[3]
                /\ bad_emails_resend_file' = l.files[4]
                /\ loads' = loads \o l.loaded
                /\ recipient_list' = l.list
                /\ IF l.error
                   THEN /\ pc' = "crashed"
                        /\ exc' = "IndexError"
                        /\ UNCHANGED <<stats_file, calls, clock,
                                       failed_recipients, idx>>
                   ELSE /\ pc' = "recipient"
                        /\ exc' = exc
                        /\ stats_file' =
                               StatsAll(stats_file,
                                        PassStats(retry_count, l.list, clock))
                        /\ calls' = calls \o PassStats(retry_count, l.list, clock)
                        /\ clock' = IF retry_count = 0 THEN clock + 1 ELSE clock
                        /\ failed_recipients' = 0
                        /\ idx' = 1
    /\ UNCHANGED <<answer, candidate, returned>>
    /\ UNCHANGED <<cfg, html_file, args, retry_count, nb, smtp_open, attempts,
                   email_message>>

\* the recipient text of send, lines 207-210
RecipientOf(recipient_data) ==
    IF DictGet(recipient_data, K_name) # <<>>
    THEN NameAddr(DictGet(recipient_data, K_name),
                  DictGet(recipient_data, K_email))
    ELSE DictGet(recipient_data, K_email)

\* send(), lines 206-217, for the recipient at idx: the derived fields are
\* stored in its dict (config.REPLYTO_EMAIL raises AttributeError when
\* config lacks it) and the message is formed
PrepareRecipient ==
    /\ pc = "recipient"
    /\ idx <= Len(recipient_list)
    /\ LET d1 == DictSet(recipient_list[idx], K_recipient,
                         RecipientOf(recipient_list[idx]))
           d2 == DictSet(d1, K_sender, NameAddr(FROM_NAME, FROM_EMAIL))
           d3 == IF cfg.REPLYTO = "set"
                 THEN DictSet(d2, K_reply_to,
                              NameAddr(REPLYTO_NAME, REPLYTO_EMAIL))
                 ELSE d2
           formed == _form_email(html_file, d3)
       IN  IF cfg.REPLYTO = "unset"
           THEN /\ recipient_list' = [recipient_list EXCEPT ![idx] = d2]
                /\ pc' = "crashed"
                /\ exc' = "AttributeError"
                /\ UNCHANGED <<email_message, nb>>
           ELSE /\ recipient_list' = [recipient_list EXCEPT ![idx] = d3]
                /\ pc' = IF formed.error # "none" THEN "crashed" ELSE "attempt"
                /\ exc' = IF formed.error # "none" THEN formed.error ELSE exc
                /\ email_message' = formed.email_message
                /\ nb' = 0
    /\ UNCHANGED <<answer, candidate, returned>>
    /\ UNCHANGED <<cfg, html_file, csv_file, retry_file, bad_emails_file,
                   bad_emails_resend_file, stats_file, args, retry_count, idx,
                   failed_recipients, smtp_open, clock, attempts, calls, loads>>

\* the outcomes of smtplib.SMTP(...) / smtplib.SMTP_SSL(...): a session, or
\* SMTPConnectError (an SMTPException; smtplib has closed the socket), or
\* an OSError of the socket, which is no SMTPException
ConnectOutcomes == {"connected", "SMTPConnectError", "OSError"}

\* the calls made on an open session
SessionSteps(c) ==
    {"sendmail"}
        \cup (IF c.ENCRYPT_MODE # "none" THEN {"ehlo"} ELSE {})
        \cup (IF c.ENCRYPT_MODE = "starttls" THEN {"starttls"} ELSE {})
        \cup (IF c.AUTH THEN {"login"} ELSE {})

\* How a call on an open session fails: "refused" is an SMTPException for a
\* reply of the server, the session stays open; "disconnected" is
\* SMTPServerDisconnected, smtplib has closed the socket; "SSLError" is the
\* OSError of a failed handshake of starttls, no SMTPException.
SessionFailures(c) ==
    {<<step, "refused">> : step \in SessionSteps(c)}
        \cup {<<step, "disconnected">> : step \in SessionSteps(c)}
        \cup (IF c.ENCRYPT_MODE = "starttls"
              THEN {<<"starttls", "SSLError">>} ELSE {})

\* One delivery attempt, for the history: its pass, the address and the
\* 'recipient' text of its record, its number for the recipient, how it
\* ended and at which call, and whether sleep(config.SEND_DELAY) ran after it
Attempt(result, at, slept) ==
    [pass |-> retry_count, to |-> DictGet(recipient_list[idx], K_email),
     recipient |-> DictGet(recipient_list[idx], K_recipient),
     n |-> nb, result |-> result, at |-> at, slept |-> slept]

\* what the except clause of send leaves, as primed variables
Handled(h) ==
    /\ retry_file' = h.retry
    /\ failed_recipients' = h.failed
    /\ stats_file' = h.stats
    /\ calls' = calls \o h.said
    /\ exc' = IF h.error # "none" THEN h.error ELSE exc
    /\ pc' = IF h.error # "none" THEN "crashed" ELSE "attempt"
    /\ nb' = IF h.error # "none" THEN nb ELSE nb + 1

\* send(), lines 219-227: the next attempt for the recipient opens its session
Connect ==
    /\ pc = "attempt"
    /\ nb < cfg.NB_EMAILS_PER_RECIPIENT
    /\ \E outcome \in ConnectOutcomes :
          CASE outcome = "connected" ->
                   /\ smtp_open' = smtp_open + 1
                   /\ pc' = "session"
                   /\ UNCHANGED <<retry_file, failed_recipients, stats_file,
                                  calls, exc, nb, attempts>>
            [] outcome = "SMTPConnectError" ->
                   /\ Handled(ExceptHandler(recipient_list[idx], retry_file,
                                            failed_recipients, stats_file))
                   /\ attempts' = Append(attempts,
                                          Attempt("failed", "connect", FALSE))
                   /\ UNCHANGED smtp_open
            [] outcome = "OSError" ->
                   /\ pc' = "crashed"
                   /\ exc' = "OSError"
                   /\ attempts' = Append(attempts,
                                          Attempt("failed", "connect", FALSE))
                   /\ UNCHANGED <<retry_file, failed_recipients, stats_file,
                                  calls, nb, smtp_open>>
    /\ UNCHANGED <<answer, candidate, returned>>
    /\ UNCHANGED <<cfg, html_file, csv_file, bad_emails_file,
                   bad_emails_resend_file, args, retry_count, recipient_list,
                   idx, clock, loads, email_message>>

\* send(), lines 229-244 on an open session: ehlo, starttls, login and
\* sendmail as configured, close(), the LAST RECIPIENT stats line, the sleep
\* (config.SEND_DELAY raises AttributeError when config lacks it); or the
\* failure of one of the calls, lines 245-253
Transmit ==
    /\ pc = "session"
    /\ \/ /\ smtp_open' = smtp_open - 1
          /\ stats_file' = _stats(stats_file,
                                  M_LAST \o DictGet(recipient_list[idx],
                                                    K_recipient))
          /\ calls' = Append(calls, M_LAST \o DictGet(recipient_list[idx],
                                                      K_recipient))
          /\ attempts' = Append(attempts, Attempt("sent", "sendmail",
                                               cfg.SEND_DELAY # "unset"))
          /\ pc' = IF cfg.SEND_DELAY = "unset" THEN "crashed" ELSE "attempt"
          /\ exc' = IF cfg.SEND_DELAY = "unset" THEN "AttributeError" ELSE exc
          /\ nb' = IF cfg.SEND_DELAY = "unset" THEN nb ELSE nb + 1
          /\ UNCHANGED <<retry_file, failed_recipients>>
       \/ \E f \in SessionFailures(cfg) :
             /\ attempts' = Append(attempts, Attempt("failed", f[1], FALSE))
             /\ smtp_open' = IF f[2] = "disconnected"
                             THEN smtp_open - 1 ELSE smtp_open
             /\ IF f[2] = "SSLError"
                THEN /\ pc' = "crashed"
                     /\ exc' = "OSError"
                     /\ UNCHANGED <<retry_file, failed_recipients, stats_file,
                                    calls, nb>>
                ELSE Handled(ExceptHandler(recipient_list[idx], retry_file,
                                           failed_recipients, stats_file))
    /\ UNCHANGED <<answer, candidate, returned>>
    /\ UNCHANGED <<cfg, html_file, csv_file, bad_emails_file,
                   bad_emails_resend_file, args, retry_count, recipient_list,
                   idx, clock, loads, email_message>>

\* send(), line 219 exhausted: on to the next recipient of line 206
NextRecipient ==
    /\ pc = "attempt"
    /\ nb >= cfg.NB_EMAILS_PER_RECIPIENT
    /\ idx' = idx + 1
    /\ pc' = "recipient"
    /\ UNCHANGED <<answer, candidate, returned>>
    /\ UNCHANGED <<cfg, html_file, csv_file, retry_file, bad_emails_file,
                   bad_emails_resend_file, stats_file, args, retry_count,
                   recipient_list, nb, failed_recipients, smtp_open, exc, clock,
                   attempts, calls, loads, email_message>>

\* the last value of i in `for i in range(1, 3)` of resend_failed
LastRetry == 2

\* send() returns: after main's send() and after each send of
\* resend_failed's loop but the last, the next send(retry_count=i); after
\* send_test() and after the last retry, on to line 314
PassEnd ==
    /\ pc = "recipient"
    /\ idx > Len(recipient_list)
    /\ IF args.action = "-s" /\ retry_count < LastRetry
       THEN /\ retry_count' = retry_count + 1
            /\ recipient_list' = <<>>
            /\ pc' = "send"
       ELSE /\ pc' = "end"
            /\ UNCHANGED <<retry_count, recipient_list>>
    /\ UNCHANGED <<answer, candidate, returned>>
    /\ UNCHANGED <<cfg, html_file, csv_file, retry_file, bad_emails_file,
                   bad_emails_resend_file, stats_file, args, idx, nb,
                   failed_recipients, smtp_open, exc, clock, attempts, calls,
                   loads, email_message>>

\* main(), line 314: the END TIME stats line
End ==
    /\ pc = "end"
    /\ stats_file' = _stats(stats_file, M_END \o Str(clock))
    /\ calls' = Append(calls, M_END \o Str(clock))
    /\ clock' = clock + 1
    /\ pc' = "done"
    /\ UNCHANGED <<answer, candidate, returned>>
    /\ UNCHANGED <<cfg, html_file, csv_file, retry_file, bad_emails_file,
                   bad_emails_resend_file, args, retry_count, recipient_list,
                   idx, nb, failed_recipients, smtp_open, exc, attempts, loads,
                   email_message>>

Next ==
    \/ Main
    \/ CountRecipients
    \/ Confirm
    \/ SendEntry
    \/ PrepareRecipient
    \/ Connect
    \/ Transmit
    \/ NextRecipient
    \/ PassEnd
    \/ End

Spec == Init /\ [][Next]_vars

---------------------------------------------------------------------------
(* Properties of a run.                                                    *)

FailedAttempts == {i \in 1..Len(attempts) : attempts[i].result = "failed"}

\* the run is over, and not by sys.exit()
RunOver == pc \in {"done", "crashed"}

\* the run was ended by the failure of a delivery attempt
AbortedByFailure ==
    /\ pc = "crashed"
    /\ attempts # <<>>
    /\ attempts[Len(attempts)].result = "failed"

\* the send() calls of the run that came to load the recipient file
SendCalls == {i \in 1..Len(loads) : loads[i] = <<"send", "csv">>}

\* the addresses of the records the recipient file yields
FileRecipients ==
    LET list == _parse_csv(csv_file, FALSE).recipients
    IN  [n \in 1..Len(list) |-> DictGet(list[n], K_email)]

\* C1: a failed delivery attempt does not abort the campaign: the recipients
\* that follow the failing one in the pass still get their attempts and the
\* remaining passes still run.
C1_FailureDoesNotAbort ==
    (RunOver /\ args.action = "-s") =>
        \A i \in FailedAttempts :
            /\ pc = "done"
            /\ retry_count = LastRetry
            /\ attempts[i].pass = 0 =>
                   \A m, n \in 1..Len(FileRecipients) :
                       (m < n /\ FileRecipients[m] = attempts[i].to) =>
                           \E j \in 1..Len(attempts) :
                               /\ attempts[j].pass = 0
                               /\ attempts[j].to = FileRecipients[n]

\* C2: a confirmed '-s' run makes exactly three passes of send, whatever
\* the outcome of each delivery attempt, and then terminates.
C2_ExactlyThreePasses ==
    (args # <<>> /\ args.action = "-s" /\ (pc = "done" \/ AbortedByFailure)) =>
        /\ pc = "done"
        /\ Cardinality(SendCalls) = LastRetry + 1

\* C3: the retry file holds a (name, email) row for every recipient whose
\* delivery attempt failed in the pass, once the except clause has run.
C3_FailedRecipientsInRetrySink ==
    \A i \in FailedAttempts :
        attempts[i].pass = retry_count =>
            \E r \in 1..Len(retry_file) :
                /\ Len(retry_file[r]) = 2
                /\ retry_file[r][2] = attempts[i].to

\* C4: the recipients of a retry pass are exactly those whose delivery
\* failed in the pass before: by the end of the run every failed attempt of
\* pass p is followed by an attempt to the same address in pass p + 1, and
\* every attempt of a retry pass follows a failed one of the pass before.
C4_RetryPassSendsToFailed ==
    RunOver =>
        /\ \A i \in FailedAttempts :
               attempts[i].pass < LastRetry =>
                   \E j \in 1..Len(attempts) :
                       /\ attempts[j].pass = attempts[i].pass + 1
                       /\ attempts[j].to = attempts[i].to
        /\ \A j \in 1..Len(attempts) :
               attempts[j].pass > 0 =>
                   \E i \in FailedAttempts :
                       /\ attempts[i].pass = attempts[j].pass - 1
                       /\ attempts[i].to = attempts[j].to

\* C9: a session is open only while its attempt is in progress: it is closed
\* when the attempt ends, sent or failed, and none is open after the run.
C9_SessionClosedAfterAttempt == pc # "session" => smtp_open = 0

\* the texts of the _stats calls send makes
SendStats == {Prefix(M_TOTAL), Prefix(M_START), Prefix(M_LAST), Prefix(M_FAILED)}

\* C10: with an ENCRYPT_MODE that is none of 'none', 'ssl', 'starttls', send
\* raises before anything else: it loads no file, writes no stats line, forms
\* no message, opens no session, and the run never gets past the call.
C10_BadModeStopsSendFirst ==
    cfg.ENCRYPT_MODE \notin EncryptModes =>
        /\ \A i \in 1..Len(loads) : loads[i][1] # "send"
        /\ \A i \in 1..Len(calls) : Prefix(calls[i]) \notin SendStats
        /\ \A i \in 1..Len(stats_file) : Prefix(stats_file[i]) \notin SendStats
        /\ email_message = <<>>
        /\ attempts = <<>>
        /\ smtp_open = 0
        /\ pc \notin {"recipient", "attempt", "session"}
        /\ pc \in {"end", "done"} => args.action = "-x"

\* send was called by a confirmed '-s' run with a bad mode, and raised
C10_Witness ==
    /\ cfg.ENCRYPT_MODE \notin EncryptModes
    /\ pc = "crashed"
    /\ exc = "Exception"
    /\ args.action = "-s"
    /\ Len(csv_file) > 1
    /\ calls = <<M_CSV \o CSV_PATH>>

\* whether the text s ends in suffix
EndsWith(s, suffix) ==
    /\ Len(suffix) <= Len(s)
    /\ SubSeq(s, Len(s) - Len(suffix) + 1, Len(s)) = suffix

\* C11: a delivery attempt is made only in a run whose template path ends in
\* '.html', whose recipient path ends in '.csv' and whose prompt was
\* answered 'yes'; a run with another extension or another answer has ended
\* by sys.exit() without any attempt.
C11_NoSendWithoutConfirmation ==
    /\ attempts # <<>> =>
           /\ EndsWith(args.html_path, EXT_HTML)
           /\ EndsWith(args.csv_path, EXT_CSV)
           /\ answer = "yes"
    /\ (/\ args # <<>>
        /\ \/ ~EndsWith(args.html_path, EXT_HTML)
           \/ ~EndsWith(args.csv_path, EXT_CSV)
           \/ answer \notin {"none", "yes"}) =>
           (pc = "exited" /\ attempts = <<>>)

\* a run with four arguments and both extensions right was answered
\* something else than 'yes', and has ended
C11_Witness ==
    /\ pc = "exited"
    /\ args.n = 4
    /\ Splitext(args.html_path) = EXT_HTML
    /\ Splitext(args.csv_path) = EXT_CSV
    /\ answer = "y"
    /\ attempts = <<>>

\* the addresses of the list the initial pass works on: the test
\* recipients of send_test(), the records of the recipient file otherwise
DueList ==
    IF args.action = "-t"
    THEN [n \in 1..Len(TEST_RECIPIENTS) |-> DictGet(TEST_RECIPIENTS[n], K_email)]
    ELSE FileRecipients

\* whether the loops of send have attempts to make after attempt a
MoreDue(a) ==
    \/ a.n + 1 < cfg.NB_EMAILS_PER_RECIPIENT
    \/ \E m, n \in 1..Len(DueList) : m < n /\ DueList[m] = a.to

\* C12: with a send delay configured, the delay runs between every two
\* consecutive delivery attempts of a run, after a failed attempt as after a
\* sent one: every attempt but the last of the history was followed by the
\* delay, and a failed attempt after which the loops still have attempts to
\* make was followed by the delay and by the next attempt.
C12_DelayAfterEveryAttempt ==
    (RunOver /\ cfg.SEND_DELAY = "set") =>
        /\ \A i \in 1..Len(attempts) : i < Len(attempts) => attempts[i].slept
        /\ \A i \in FailedAttempts :
               MoreDue(attempts[i]) => (attempts[i].slept /\ i < Len(attempts))

\* the lines of a stats file whose key is that of the text key
StatEntries(file, key) == SelectSeq(file, LAMBDA e : Prefix(e) = Prefix(key))

\* the data rows of the recipient file whose address _validate_email accepts
ValidRecords ==
    {i \in 2..Len(csv_file) :
        _validate_email(EmailOf(csv_file[1], csv_file[i]))}

\* a step in which _stats was given a TOTAL RECIPIENTS or a START TIME message
WroteTotalOrStart ==
    \E i \in (Len(calls) + 1)..Len(calls') :
        Prefix(calls'[i]) \in {Prefix(M_TOTAL), Prefix(M_START)}

\* C13: the TOTAL RECIPIENTS and START TIME entries are written by the
\* initial pass only, before any delivery attempt, and in a '-s' run TOTAL
\* RECIPIENTS is the number of valid records of the recipient file; every
\* other step of the run, those of retry passes 1 and 2 included, leaves
\* both entries as they are, and both are there at the first attempt.
C13_TotalAndStartInitialPassOnly ==
    [][ /\ WroteTotalOrStart =>
               /\ pc = "send"
               /\ retry_count = 0
               /\ attempts = <<>>
               /\ Len(StatEntries(stats_file', M_START)) = 1
               /\ args.action = "-s" =>
                      StatEntries(stats_file', M_TOTAL) =
                          <<M_TOTAL \o Str(Cardinality(ValidRecords))>>
        /\ ~WroteTotalOrStart =>
               /\ StatEntries(stats_file', M_TOTAL) = StatEntries(stats_file, M_TOTAL)
               /\ StatEntries(stats_file', M_START) = StatEntries(stats_file, M_START)
        /\ attempts' # <<>> =>
               /\ StatEntries(stats_file', M_TOTAL) # <<>>
               /\ StatEntries(stats_file', M_START) # <<>>
      ]_vars

\* a '-s' run with a valid and a rejected row has sent and gone through
\* both retry passes
C13_Witness ==
    /\ pc = "done"
    /\ args.action = "-s"
    /\ retry_count = LastRetry
    /\ attempts # <<>>
    /\ Len(csv_file) = 3
    /\ StatEntries(stats_file, M_TOTAL) = <<M_TOTAL \o <<"1">> >>
    /\ Len(StatEntries(stats_file, M_START)) = 1

\* C14: in a confirmed run with an empty template file (mode valid, config
\* with its reply-to settings) no delivery attempt is made and the run does
\* not go on: it makes no retry pass, writes no END TIME, and ends with the
\* content error of _html_parser, whatever the recipient list holds.
C14_EmptyTemplateIsFatal ==
    (/\ html_file = <<>>
     /\ answer = "yes"
     /\ ValidEncryptMode(cfg.ENCRYPT_MODE)
     /\ cfg.REPLYTO # "unset") =>
        /\ attempts = <<>>
        /\ retry_count = 0
        /\ pc \notin {"end", "done"}
        /\ pc = "crashed" => exc = "Exception"

---------------------------------------------------------------------------
(* SpecRender: one _html_parser call on a template and a record.           *)

MaxPieces == 3       \* pieces of a template in SpecRender

\* pieces of a template: plain text, the tokens of two keys a record has and
\* of one it has not, the opening of a token
RenderPieces == { <<"H", "i", " ">>, Placeholder(K_name), Placeholder(K_email),
                  Placeholder(K_city), <<"<", "!", "-", "-">> }

RECURSIVE Concat(_)
Concat(pieces) ==
    IF pieces = <<>> THEN <<>> ELSE Head(pieces) \o Concat(Tail(pieces))

\* the content of the template file: empty, or up to MaxPieces pieces
RenderTemplates == {Concat(p) : p \in SeqsUpTo(RenderPieces, MaxPieces)}

\* values of a record: a name, an address, the empty text, and texts that
\* are themselves the token of a key
RenderValues == { T_Ann, E_ann, <<>>, Placeholder(K_name), Placeholder(K_email) }

\* recipient_data: name and email, in either order of insertion
RenderRecords ==
    { <<<<K_name, v>>, <<K_email, w>>>> : v \in RenderValues, w \in RenderValues }
        \cup { <<<<K_email, w>>, <<K_name, v>>>> :
                   v \in RenderValues, w \in RenderValues }

InitRender ==
    /\ pc = "render"
    /\ html_file \in RenderTemplates
    /\ recipient_list \in {<<r>> : r \in RenderRecords}
    /\ returned = <<>>
    /\ candidate = <<>>
    /\ answer = "none"
    /\ cfg = <<>>
    /\ args = <<>>
    /\ csv_file = <<>>
    /\ retry_file = <<>>
    /\ bad_emails_file = <<>>
    /\ bad_emails_resend_file = <<>>
    /\ stats_file = <<>>
    /\ retry_count = 0
    /\ idx = 1
    /\ nb = 0
    /\ failed_recipients = 0
    /\ smtp_open = 0
    /\ exc = "none"
    /\ clock = 0
    /\ attempts = <<>>
    /\ calls = <<>>
    /\ loads = <<>>
    /\ email_message = <<>>

\* self._html_parser(recipient_data)
Render ==
    /\ pc = "render"
    /\ \E parsed \in {_html_parser(html_file, recipient_list[idx])} :
          /\ returned' = parsed.content
          /\ exc' = IF parsed.error # "none" THEN parsed.error ELSE exc
          /\ pc' = IF parsed.error # "none" THEN "crashed" ELSE "rendered"
    /\ UNCHANGED <<cfg, html_file, csv_file, retry_file, bad_emails_file,
                   bad_emails_resend_file, stats_file, args, retry_count,
                   recipient_list, idx, nb, failed_recipients, smtp_open,
                   clock, attempts, calls, loads, email_message, answer,
                   candidate>>

NextRender == Render

SpecRender == InitRender /\ [][NextRender]_vars

\* the items of a record whose token starts the text
TokenAtHead(html, record) ==
    {i \in 1..Len(record) : OccursAt(html, Placeholder(record[i][1]), 1)}

\* The template with every token of a key of the record replaced by the
\* key's value in one pass from left to right: the text put in for a token
\* is not looked at again, every other character is copied.
RECURSIVE Rendered(_, _)
Rendered(html, record) ==
    IF html = <<>> THEN <<>>
    ELSE IF TokenAtHead(html, record) = {}
    THEN <<Head(html)>> \o Rendered(Tail(html), record)
    ELSE LET i == CHOOSE n \in TokenAtHead(html, record) : TRUE
         IN  record[i][2]
                 \o Rendered(SubSeq(html, Len(Placeholder(record[i][1])) + 1,
                                    Len(html)),
                             record)

\* C15: rendering a template against a record gives the template with every
\* token <!--k--> of a key k of the record replaced by the record's value for
\* k and no other character altered: tokens of other keys stay, and a value
\* put in for one key is not changed by the substitution of another key.
C15_RenderReplacesTokensOnly ==
    pc = "rendered" => returned = Rendered(html_file, recipient_list[idx])

---------------------------------------------------------------------------
(* SpecValidate: one _validate_email call on a text.                       *)

MaxEmailLen == 6     \* characters of a text given to _validate_email

\* the characters the texts are made of
EmailChars == {"a", ".", "@", "-", "\n"}

\* texts with an underscore, a digit and a capital, a blank, a character
\* outside ASCII
EmailExtras == { <<"a", "_", "1", "@", "B", ".", "c", "o">>,
                 <<"a", " ", "@", "b", ".", "c", "o">>,
                 <<"U+00E9", "a", "@", "b", ".", "c", "o">>,
                 <<"a", "@", "b", ".", "U+00E9", "o">> }

EmailTexts == SeqsUpTo(EmailChars, MaxEmailLen) \cup EmailExtras

\* None, as a value no text equals
NoneValue == <<"None">>

InitValidate ==
    /\ pc = "validate"
    /\ candidate \in EmailTexts
    /\ returned = <<>>
    /\ html_file = <<>>
    /\ recipient_list = <<>>
    /\ answer = "none"
    /\ cfg = <<>>
    /\ args = <<>>
    /\ csv_file = <<>>
    /\ retry_file = <<>>
    /\ bad_emails_file = <<>>
    /\ bad_emails_resend_file = <<>>
    /\ stats_file = <<>>
    /\ retry_count = 0
    /\ idx = 0
    /\ nb = 0
    /\ failed_recipients = 0
    /\ smtp_open = 0
    /\ exc = "none"
    /\ clock = 0
    /\ attempts = <<>>
    /\ calls = <<>>
    /\ loads = <<>>
    /\ email_message = <<>>

\* self._validate_email(email_address): the address, or None
Validate ==
    /\ pc = "validate"
    /\ returned' = IF _validate_email(candidate) THEN candidate ELSE NoneValue
    /\ pc' = "validated"
    /\ UNCHANGED <<cfg, html_file, csv_file, retry_file, bad_emails_file,
                   bad_emails_resend_file, stats_file, args, retry_count,
                   recipient_list, idx, nb, failed_recipients, smtp_open, exc,
                   clock, attempts, calls, loads, email_message, answer,
                   candidate>>

NextValidate == Validate

SpecValidate == InitValidate /\ [][NextValidate]_vars

\* printable ASCII, among the characters of the model
Printable == Ascii \ {"\n"}

\* letters, digits, dot, hyphen, underscore
LocalChar == Alnum \cup {".", "-", "_"}

\* a label of a domain: letters, digits and hyphens, at least one
DomainLabel(l) == Len(l) > 0 /\ \A i \in 1..Len(l) : l[i] \in Alnum \cup {"-"}

\* the form local-part@domain with a label-dot-label domain whose final
\* label has 2 or more characters
DocumentedForm(s) ==
    LET parts == Split(s, "@")
    IN  /\ Len(parts) = 2
        /\ Len(parts[1]) > 0
        /\ \A i \in 1..Len(parts[1]) : parts[1][i] \in LocalChar
        /\ LET labels == Split(parts[2], ".")
           IN  /\ Len(labels) >= 2
               /\ \A i \in 1..Len(labels) : DomainLabel(labels[i])
               /\ Len(labels[Len(labels)]) >= 2

\* C16: _validate_email returns the text exactly when it has at least 5
\* characters, all of them printable ASCII, and the form local-part@domain
\* with a final domain label of 2 or more characters; it returns None for
\* every other text, a final label of one character included.
C16_AcceptsExactlyDocumentedForm ==
    pc = "validated" =>
        ((returned = candidate) <=>
            (/\ Len(candidate) >= MinEmailLen
             /\ \A i \in 1..Len(candidate) : candidate[i] \in Printable
             /\ DocumentedForm(candidate)))

---------------------------------------------------------------------------
(* More properties of a run.                                               *)

\* C17: once a delivery attempt of the run has failed, the stats file has
\* one FAILED RECIPIENTS entry and it gives the number of failed attempts
\* made since the start of the run, in whichever pass they were made.
C17_FailedCountAccumulates ==
    FailedAttempts # {} =>
        StatEntries(stats_file, M_FAILED) =
            <<M_FAILED \o Str(Cardinality(FailedAttempts))>>

\* the attempts a pass owes to a list of addresses: each address in list
\* order, repeat attempts numbered from 0, all for one address before the
\* first for the next
AttemptsOwed(list, repeat) ==
    [k \in 1..(Len(list) * repeat) |->
        [pass |-> 0, to |-> list[((k - 1) \div repeat) + 1],
         n |-> (k - 1) % repeat]]

\* C18: in a confirmed run (mode valid, template not empty, config with its
\* reply-to and delay settings) that is over, the delivery attempts made are
\* exactly those owed to the list of the pass: NB_EMAILS_PER_RECIPIENT
\* attempts for each recipient, sent or failed, in list order, recipient by
\* recipient.
C18_RepeatCountAttemptsInOrder ==
    (/\ RunOver
     /\ answer = "yes"
     /\ ValidEncryptMode(cfg.ENCRYPT_MODE)
     /\ cfg.REPLYTO = "set"
     /\ cfg.SEND_DELAY = "set"
     /\ html_file # <<>>) =>
        [i \in 1..Len(attempts) |->
            [pass |-> attempts[i].pass, to |-> attempts[i].to,
             n |-> attempts[i].n]]
            = AttemptsOwed(DueList, cfg.NB_EMAILS_PER_RECIPIENT)

\* C19: a _stats call with a message m (not empty) changes only the lines
\* of the stats file whose first 5 characters are those of m: when a line
\* matches, the file keeps its length, every matching line becomes m where
\* it stands and every other line keeps its content and its place; when no
\* line matches, the file is the previous lines followed by m.
C19_StatsChangesOnlyMatchingLines ==
    [][ (/\ pc = "stats"
         /\ Len(calls') = Len(calls) + 1
         /\ calls'[Len(calls')] # <<>>) =>
            LET m == calls'[Len(calls')]
                matching == {i \in 1..Len(stats_file) :
                                Prefix(stats_file[i]) = Prefix(m)}
            IN  IF matching = {}
                THEN stats_file' = Append(stats_file, m)
                ELSE /\ Len(stats_file') = Len(stats_file)
                     /\ \A i \in 1..Len(stats_file) :
                            stats_file'[i] =
                                IF i \in matching THEN m ELSE stats_file[i]
      ]_vars

\* the last call replaced the first line of a file of several lines by
\* another message of its key
C19_Witness ==
    /\ pc = "stats"
    /\ Len(calls) = MaxCalls
    /\ Len(stats_file) >= 2
    /\ stats_file[1] = calls[Len(calls)]
    /\ Prefix(calls[1]) = Prefix(calls[Len(calls)])
    /\ calls[1] # calls[Len(calls)]
    /\ Prefix(calls[2]) # Prefix(calls[1])

SentAttempts == {i \in 1..Len(attempts) : attempts[i].result = "sent"}

\* C20: at every point of a run the stats file has a LAST RECIPIENT entry
\* exactly when an attempt of the run was sent, and the entry names the
\* recipient of the most recent sent attempt; a failed attempt leaves it as
\* it is.
C20_LastRecipientIsLastSent ==
    StatEntries(stats_file, M_LAST) =
        IF SentAttempts = {} THEN <<>>
        ELSE <<M_LAST \o attempts[SetMax(SentAttempts)].recipient>>

\* an attempt for one recipient was sent and a later attempt for another
\* recipient failed
C20_Witness ==
    \E i, j \in 1..Len(attempts) :
        /\ i < j
        /\ j = Len(attempts)
        /\ attempts[i].result = "sent"
        /\ attempts[j].result = "failed"
        /\ attempts[i].recipient # attempts[j].recipient
        /\ StatEntries(stats_file, M_LAST) = <<M_LAST \o attempts[i].recipient>>

===========================================================================
